---- MODULE Spec2Model ----
(***************************************************************************)
(* Model of vscode-setup-check/index.js: an environment-verification CLI.  *)
(* One run = help check, then main(): checkNode, checkVSCode,              *)
(* checkExtensions, checkGit, checkLocalRepo, printManualChecklist,        *)
(* printSummary.  Command output is text, modelled as a sequence of        *)
(* one-character strings so that trim / toLowerCase / split / includes are *)
(* computed; messages, paths and commands are TLA+ strings.  Glyphs that   *)
(* are not ASCII in the source (check marks, emoji) are written as ASCII   *)
(* tags such as "[ok]" or "(red)".                                         *)
(***************************************************************************)
EXTENDS Integers, Sequences, FiniteSets, TLC

VARIABLES
    argv,        \* process.argv after the script name
    platform,    \* os.platform()
    env,         \* process.env: LOCALAPPDATA, PROGRAMFILES, PROGRAMFILES(X86) ("" when unset)
    whichCode,   \* what execSync gives for the locate-in-path command in this run
    results,     \* the accumulator: passed, failed, warnings, critical, important, optional
    output,      \* every console.log call so far, in order
    calls,       \* every command handed to executeCommand so far, in order
    fsChecks,    \* every path handed to fs.existsSync so far, in order
    trace,       \* the functions main has called so far, in order
    vscodePath,  \* main's local: what checkVSCode returned
    locals,      \* the locals of the function that ran last
    pc,          \* the next step of the script
    exitCode     \* the process exit status, -1 while running

vars == <<argv, platform, env, whichCode, results, output, calls, fsChecks,
          trace, vscodePath, locals, pc, exitCode>>

(***************************************************************************)
(* Bounds of the model.                                                    *)
(***************************************************************************)
MaxChanges == 2   \* most lines a `git status --porcelain` answer has
MaxCount == 3     \* most entries per accumulator list when printSummary is checked alone

(***************************************************************************)
(* Text: sequences of one-character strings.                               *)
(***************************************************************************)
WhiteSpace == {" ", "\t", "\n", "\r"}

LowerLetters == <<"a","b","c","d","e","f","g","h","i","j","k","l","m",
                  "n","o","p","q","r","s","t","u","v","w","x","y","z">>
UpperLetters == <<"A","B","C","D","E","F","G","H","I","J","K","L","M",
                  "N","O","P","Q","R","S","T","U","V","W","X","Y","Z">>

\* the letters' lower-case and upper-case forms, as tables
Letters(table) == {table[i] : i \in DOMAIN table}
LowerMap == [c \in Letters(UpperLetters) |->
                LowerLetters[CHOOSE i \in DOMAIN UpperLetters : UpperLetters[i] = c]]
UpperMap == [c \in Letters(LowerLetters) |->
                UpperLetters[CHOOSE i \in DOMAIN LowerLetters : LowerLetters[i] = c]]

ToLowerChar(c) == IF c \in DOMAIN LowerMap THEN LowerMap[c] ELSE c

ToUpperChar(c) == IF c \in DOMAIN UpperMap THEN UpperMap[c] ELSE c

\* String.prototype.toLowerCase
ToLowerCase(s) == [i \in DOMAIN s |-> ToLowerChar(s[i])]

\* String.prototype.trim: drops the white space at both ends
RECURSIVE TrimStart(_)
TrimStart(s) ==
    IF s # <<>> /\ Head(s) \in WhiteSpace THEN TrimStart(Tail(s)) ELSE s

RECURSIVE TrimEnd(_)
TrimEnd(s) ==
    IF s # <<>> /\ s[Len(s)] \in WhiteSpace
    THEN TrimEnd(SubSeq(s, 1, Len(s) - 1)) ELSE s

Trim(s) == TrimEnd(TrimStart(s))

\* String.prototype.split(sep) for a one-character separator: the pieces between
\* consecutive separators, so "" gives [""]
Split(s, sep) ==
    LET cuts == {0, Len(s) + 1} \cup {i \in 1..Len(s) : s[i] = sep}
        cut(k) == CHOOSE p \in cuts : Cardinality({q \in cuts : q < p}) = k - 1
    IN  [k \in 1..(Cardinality(cuts) - 1) |-> SubSeq(s, cut(k) + 1, cut(k + 1) - 1)]

\* Array.prototype.includes: some element equals x
ArrayIncludes(arr, x) == \E i \in DOMAIN arr : arr[i] = x

\* String.prototype.includes: sub occurs in s as a substring
StringIncludes(s, sub) ==
    \E i \in 1..(Len(s) - Len(sub) + 1) : SubSeq(s, i, i + Len(sub) - 1) = sub

\* template-literal interpolation of a text into a message
RECURSIVE Str(_)
Str(s) == IF s = <<>> THEN "" ELSE Head(s) \o Str(Tail(s))

\* '='.repeat(60)
Rule == "============================================================"

(***************************************************************************)
(* execSync and executeCommand.  A raw outcome of execSync is either the   *)
(* child's standard output or a thrown error.                              *)
(***************************************************************************)
Ok(text) == [ok |-> TRUE, err |-> "", stdout |-> text]
Fails(kind) == [ok |-> FALSE, err |-> kind, stdout |-> <<>>]

\* JavaScript completions of executeCommand: a string, null, or a throw
StringValue(text) == [type |-> "normal", isNull |-> FALSE, text |-> text]
Null == [type |-> "normal", isNull |-> TRUE, text |-> <<>>]
Thrown == [type |-> "throw", isNull |-> TRUE, text |-> <<>>]

\* the catch clause left out: the error reaches the caller
executeCommand_NoCatch(raw) ==
    IF raw.ok THEN StringValue(Trim(raw.stdout)) ELSE Thrown

\* the output returned as execSync gave it
executeCommand_NoTrim(raw) ==
    IF raw.ok THEN StringValue(raw.stdout) ELSE Null

executeCommand(raw) ==
    IF raw.ok THEN StringValue(Trim(raw.stdout)) ELSE Null

\* JavaScript truthiness of such a value: null and "" are falsy
Truthy(v) == v.type = "normal" /\ ~v.isNull /\ v.text # <<>>

(***************************************************************************)
(* What a piece of code does is an effect: the console.log calls it makes, *)
(* the entries it pushes on the accumulator, the commands it runs, the     *)
(* paths it tests, and whether it ends by throwing.  Do runs effects one   *)
(* after the other; nothing after a throw happens.                         *)
(***************************************************************************)
EmptyResults ==
    [passed |-> <<>>, failed |-> <<>>, warnings |-> <<>>,
     critical |-> <<>>, important |-> <<>>, optional |-> <<>>]

Nothing == [out |-> <<>>, pushes |-> <<>>, execs |-> <<>>, exists |-> <<>>, threw |-> FALSE]

\* the lists of the first k effects, one after the other
RECURSIVE Gather(_, _, _)
Gather(es, k, field) ==
    IF k = 0 THEN <<>> ELSE Gather(es, k - 1, field) \o es[k][field]

\* es is the value of effects: the effects up to the first that throws happen
Do(effects) ==
    CHOOSE all \in
        {LET throwers == {i \in DOMAIN es : es[i].threw}
             last == IF throwers = {} THEN Len(es)
                     ELSE CHOOSE i \in throwers : \A j \in throwers : i <= j
         IN  [out |-> Gather(es, last, "out"),
              pushes |-> Gather(es, last, "pushes"),
              execs |-> Gather(es, last, "execs"),
              exists |-> Gather(es, last, "exists"),
              threw |-> throwers # {}] : es \in {effects}} : TRUE

\* console.log(text)
consoleLog(text) == [Nothing EXCEPT !.out = <<[color |-> "none", text |-> text]>>]

\* print(message, color)
print(message, color) == [Nothing EXCEPT !.out = <<[color |-> color, text |-> message]>>]

\* printHeader(title)
printHeader(title) ==
    Do(<<consoleLog("\n" \o Rule), print(title, "bright"), consoleLog(Rule \o "\n")>>)

\* results[list].push(item)
Push(list, item) == [Nothing EXCEPT !.pushes = <<[list |-> list, item |-> item]>>]

\* executeCommand(command) is called; raw is what execSync does, value what comes back
Called(command, raw, value) ==
    [Nothing EXCEPT !.execs = <<[command |-> command, raw |-> raw, value |-> value]>>,
                    !.threw = (value.type = "throw")]

\* fs.existsSync(path) is called and answers found
Existed(path, found) == [Nothing EXCEPT !.exists = <<[path |-> path, found |-> found]>>]

\* the entries an effect pushes on one list of the accumulator, in order
Pushed(effect, list) ==
    LET mine == SelectSeq(effect.pushes, LAMBDA p : p.list = list)
    IN  [i \in DOMAIN mine |-> mine[i].item]

\* the new entries are put in front of each list
ResultsAfter_Unshift(r, effect) == [list \in DOMAIN r |-> Pushed(effect, list) \o r[list]]

\* the accumulator after an effect
ResultsAfter(r, effect) == [list \in DOMAIN r |-> r[list] \o Pushed(effect, list)]

symbols == [success |-> "[ok]", failure |-> "[x]", warning |-> "[!]", info |-> "[i]"]

criticalityColors == [CRITICAL |-> "red", IMPORTANT |-> "yellow", OPTIONAL |-> "green"]
critSymbols == [CRITICAL |-> "(red)", IMPORTANT |-> "(yellow)", OPTIONAL |-> "(green)"]

\* options of printResult; "" and <<>> stand for a property that is not given
NoOptions == [criticality |-> "", fix |-> <<>>, link |-> ""]
GuideLink == "https://github.com/DigitalFuturesOCADU/atelier1-fall2025/tree/main/guide"

\* options.fix.forEach((step, index) => console.log(`     ${index + 1}. ${step}`))
LogSteps(fix) ==
    [Nothing EXCEPT !.out = [index \in DOMAIN fix |->
        [color |-> "none", text |-> "     " \o ToString(index) \o ". " \o fix[index]]]]

\* every criticality is filed as important
PushBySeverity_AllImportant(criticality, message) == Push("important", message)

\* the bucket chosen by the criticality of a failure
PushBySeverity(criticality, message) ==
    IF criticality = "CRITICAL" THEN Push("critical", message)
    ELSE IF criticality = "IMPORTANT" THEN Push("important", message)
    ELSE IF criticality = "OPTIONAL" THEN Push("optional", message)
    ELSE Nothing

\* a criticality is shown and filed whatever the status
ShowsCriticality_AnyStatus(status, options) == options.criticality # ""

\* the condition under which printResult shows and files a criticality
ShowsCriticality(status, options) ==
    status = "failure" /\ options.criticality # ""

\* the condition under which printResult shows the fix instructions
ShowsFix(status, options) ==
    status = "failure" /\ options.fix # <<>>

printResult(status, message, details, options) ==
    LET color == IF status = "success" THEN "green"
                 ELSE IF status = "failure" THEN "red" ELSE "yellow"
    IN  Do(<<print(symbols[status] \o " " \o message, color),
             IF details # "" THEN consoleLog("  " \o details) ELSE Nothing,
             IF ShowsCriticality(status, options)
             THEN Do(<<print("  " \o critSymbols[options.criticality]
                                  \o " Criticality: " \o options.criticality,
                             criticalityColors[options.criticality]),
                       PushBySeverity(options.criticality, message)>>)
             ELSE Nothing,
             IF ShowsFix(status, options)
             THEN Do(<<print("  (bulb) How to fix:", "cyan"), LogSteps(options.fix)>>)
             ELSE Nothing,
             IF options.link # "" THEN print("  (book) Guide: " \o options.link, "blue")
             ELSE Nothing,
             IF status = "failure" \/ (status = "warning" /\ options.fix # <<>>)
             THEN consoleLog("") ELSE Nothing>>)

(***************************************************************************)
(* checkNode                                                               *)
(***************************************************************************)
NodeFix ==
    <<"Download Node.js LTS version from: https://nodejs.org/",
      "Run the installer (includes npm)",
      "Use default installation settings",
      "Restart terminal after installation",
      "",
      "Note: You're seeing this message because Node.js IS installed",
      "(otherwise this script wouldn't run!). This check failed due to",
      "a technical issue, but you can safely ignore it.">>

NpmFix ==
    <<"npm usually comes with Node.js",
      "Try reinstalling Node.js from: https://nodejs.org/",
      "",
      "Note: Not required for basic P5.js development">>

\* what checkNode does with the value of `node --version`
ReportNode(nodeVersion) ==
    IF Truthy(nodeVersion)
    THEN Do(<<printResult("success", "Node.js is installed", Str(nodeVersion.text), NoOptions),
              Push("passed", "Node.js installed")>>)
    ELSE Do(<<printResult("failure", "Node.js is NOT installed",
                          "Required to run this verification script",
                          [criticality |-> "IMPORTANT", fix |-> NodeFix, link |-> GuideLink]),
              Push("failed", "Node.js not found")>>)

\* a missing npm is printed and not recorded
ReportNpm_Unrecorded(npmVersion) ==
    IF Truthy(npmVersion)
    THEN Do(<<printResult("success", "npm is installed",
                          "Version: " \o Str(npmVersion.text), NoOptions),
              Push("passed", "npm installed")>>)
    ELSE printResult("warning", "npm is NOT installed", "Useful for managing packages",
                     [criticality |-> "OPTIONAL", fix |-> NpmFix, link |-> ""])

\* what checkNode does with the value of `npm --version`
ReportNpm(npmVersion) ==
    IF Truthy(npmVersion)
    THEN Do(<<printResult("success", "npm is installed",
                          "Version: " \o Str(npmVersion.text), NoOptions),
              Push("passed", "npm installed")>>)
    ELSE Do(<<printResult("warning", "npm is NOT installed", "Useful for managing packages",
                          [criticality |-> "OPTIONAL", fix |-> NpmFix, link |-> ""]),
              Push("warnings", "npm not found")>>)

checkNode(rawNode, rawNpm) ==
    LET nodeVersion == executeCommand(rawNode)
        npmVersion == executeCommand(rawNpm)
    IN  [effect |-> Do(<<printHeader("Checking Node.js Installation"),
                         Called("node --version", rawNode, nodeVersion),
                         Called("npm --version", rawNpm, npmVersion),
                         ReportNode(nodeVersion),
                         ReportNpm(npmVersion)>>),
         vars |-> [nodeVersion |-> nodeVersion, npmVersion |-> npmVersion]]

(***************************************************************************)
(* findVSCodePath and checkVSCode                                          *)
(***************************************************************************)
NullPath == [isNull |-> TRUE, path |-> ""]
PathValue(p) == [isNull |-> FALSE, path |-> p]

\* the platform's locate-in-path command
LocateCommand(plat) == IF plat = "win32" THEN "where code.cmd" ELSE "which code"

\* os.homedir()
HomeDir(plat) ==
    IF plat = "darwin" THEN "/Users/student"
    ELSE IF plat = "win32" THEN "C:\\Users\\student" ELSE "/home/student"

\* path.join: the non-empty parts, joined by the platform's separator
RECURSIVE PathJoin(_, _)
PathJoin(parts, sep) ==
    IF parts = <<>> THEN ""
    ELSE LET rest == PathJoin(Tail(parts), sep)
         IN  IF Head(parts) = "" THEN rest
             ELSE IF rest = "" THEN Head(parts)
             ELSE Head(parts) \o sep \o rest

\* a || fallback
OrElse(value, fallback) == IF value = "" THEN fallback ELSE value

\* the candidate installation paths, in the order they are tested
possiblePaths(plat, e) ==
    IF plat = "darwin" THEN
        <<"/Applications/Visual Studio Code.app/Contents/Resources/app/bin/code",
          PathJoin(<<HomeDir(plat),
                     "Applications/Visual Studio Code.app/Contents/Resources/app/bin/code">>, "/")>>
    ELSE IF plat = "win32" THEN
        <<PathJoin(<<OrElse(e.LOCALAPPDATA, ""), "Programs", "Microsoft VS Code", "bin", "code.cmd">>, "\\"),
          PathJoin(<<OrElse(e.PROGRAMFILES, "C:\\Program Files"),
                     "Microsoft VS Code", "bin", "code.cmd">>, "\\"),
          PathJoin(<<OrElse(e.PROGRAMFILES_X86, "C:\\Program Files (x86)"),
                     "Microsoft VS Code", "bin", "code.cmd">>, "\\")>>
    ELSE
        <<"/usr/bin/code",
          "/usr/local/bin/code",
          PathJoin(<<HomeDir(plat), ".vscode-server", "bin", "code">>, "/")>>

\* the loop goes on after a path that exists: the last existing path is returned
RECURSIVE FirstExisting_Last(_, _)
FirstExisting_Last(paths, existing) ==
    IF paths = <<>> THEN [effect |-> Nothing, value |-> NullPath]
    ELSE LET rest == FirstExisting_Last(Tail(paths), existing)
             found == Head(paths) \in existing
         IN  [effect |-> Do(<<Existed(Head(paths), found), rest.effect>>),
              value |-> IF rest.value.isNull /\ found THEN PathValue(Head(paths))
                        ELSE rest.value]

\* the loop over possiblePaths; existing is the set of paths the filesystem has
RECURSIVE FirstExisting(_, _)
FirstExisting(paths, existing) ==
    IF paths = <<>> THEN [effect |-> Nothing, value |-> NullPath]
    ELSE IF Head(paths) \in existing
    THEN [effect |-> Existed(Head(paths), TRUE), value |-> PathValue(Head(paths))]
    ELSE LET rest == FirstExisting(Tail(paths), existing)
         IN  [effect |-> Do(<<Existed(Head(paths), FALSE), rest.effect>>), value |-> rest.value]

findVSCodePath(plat, e, rawWhich, existing) ==
    LET inPath == executeCommand(rawWhich)
        called == Called(LocateCommand(plat), rawWhich, inPath)
        search == FirstExisting(possiblePaths(plat, e), existing)
    IN  IF called.threw THEN [effect |-> called, value |-> NullPath]
        ELSE IF Truthy(inPath)
        THEN [effect |-> called,
              value |-> PathValue(IF plat = "win32" THEN "code.cmd" ELSE "code")]
        ELSE [effect |-> Do(<<called, search.effect>>), value |-> search.value]

AddToPathFix(plat) ==
    IF plat = "darwin" THEN
        <<"To add VS Code to PATH:",
          "  1. Open VS Code",
          "  2. Press Cmd+Shift+P to open Command Palette",
          "  3. Type \"shell command\"",
          "  4. Select \"Shell Command: Install 'code' command in PATH\"",
          "  5. Restart terminal",
          "",
          "Note: This is OPTIONAL. Extensions check will still work.">>
    ELSE IF plat = "win32" THEN
        <<"To add VS Code to PATH:",
          "  1. Reinstall VS Code from: https://code.visualstudio.com/download",
          "  2. During installation, check \"Add to PATH\" option",
          "  3. Restart your computer",
          "",
          "Note: This is OPTIONAL. Extensions check will still work.">>
    ELSE
        <<"Add VS Code to your PATH manually or reinstall from:",
          "https://code.visualstudio.com/download">>

InstallVSCodeFix(plat) ==
    <<"Download and install VS Code from: https://code.visualstudio.com/download",
      IF plat = "darwin" THEN "For Mac: Download the .dmg file and drag to Applications"
      ELSE IF plat = "win32" THEN "For Windows: Download the installer and check \"Add to PATH\""
      ELSE "Follow the installation instructions for your OS",
      "Restart your terminal after installation">>

\* an editor that is not in PATH is reported as not installed
ReportVSCodeFound_PathRequired(plat, rawWhich, versionNumber) ==
    LET inPath == executeCommand(rawWhich)
    IN  Do(<<Called(LocateCommand(plat), rawWhich, inPath),
             IF Truthy(inPath)
             THEN Do(<<printResult("success", "VS Code is installed and in PATH",
                                   "Version: " \o Str(versionNumber), NoOptions),
                       Push("passed", "VS Code in PATH")>>)
             ELSE Do(<<printResult("failure", "VS Code is NOT installed",
                                   "Required for development",
                                   [criticality |-> "CRITICAL", fix |-> InstallVSCodeFix(plat),
                                    link |-> GuideLink]),
                       Push("failed", "VS Code not found")>>)>>)

\* the branch of checkVSCode taken once the version query answered
ReportVSCodeFound(plat, rawWhich, versionNumber) ==
    LET inPath == executeCommand(rawWhich)
    IN  Do(<<Called(LocateCommand(plat), rawWhich, inPath),
             IF Truthy(inPath)
             THEN Do(<<printResult("success", "VS Code is installed and in PATH",
                                   "Version: " \o Str(versionNumber), NoOptions),
                       Push("passed", "VS Code in PATH")>>)
             ELSE Do(<<printResult("success", "VS Code is installed",
                                   "Version: " \o Str(versionNumber), NoOptions),
                       Push("passed", "VS Code installed"),
                       printResult("warning", "VS Code is NOT in PATH",
                                   "Recommended for better terminal integration",
                                   [criticality |-> "OPTIONAL", fix |-> AddToPathFix(plat),
                                    link |-> ""]),
                       Push("warnings", "VS Code not in PATH")>>)>>)

\* the tail of checkVSCode: VS Code not found anywhere
ReportVSCodeMissing(plat) ==
    Do(<<printResult("failure", "VS Code is NOT installed", "Required for development",
                     [criticality |-> "CRITICAL", fix |-> InstallVSCodeFix(plat),
                      link |-> GuideLink]),
         Push("failed", "VS Code not found")>>)

checkVSCode(plat, e, rawWhich, existing, rawVersion) ==
    LET header == printHeader("Checking VS Code Installation")
        f == findVSCodePath(plat, e, rawWhich, existing)
        version == executeCommand(rawVersion)
        called == Called("\"" \o f.value.path \o "\" --version", rawVersion, version)
    IN  IF f.value.isNull
        THEN [effect |-> Do(<<header, f.effect, ReportVSCodeMissing(plat)>>),
              value |-> NullPath,
              vars |-> [vscodePath |-> f.value]]
        ELSE IF Truthy(version)
        THEN [effect |-> Do(<<header, f.effect, called,
                              ReportVSCodeFound(plat, rawWhich, Split(version.text, "\n")[1])>>),
              value |-> f.value,
              vars |-> [vscodePath |-> f.value, version |-> version]]
        ELSE [effect |-> Do(<<header, f.effect, called, ReportVSCodeMissing(plat)>>),
              value |-> NullPath,
              vars |-> [vscodePath |-> f.value, version |-> version]]

(***************************************************************************)
(* checkExtensions                                                         *)
(***************************************************************************)
requiredExtensions ==
    <<[id |-> <<"e","a","m","o","d","i","o",".","g","i","t","l","e","n","s">>,
       name |-> "GitLens", criticality |-> "IMPORTANT",
       reason |-> "Enhances Git workflow and visualization"],
      [id |-> <<"a","c","i","d","i","c","9",".","p","5","j","s","-","s","n","i","p","p","e","t","s">>,
       name |-> "p5js Snippets", criticality |-> "IMPORTANT",
       reason |-> "Provides code snippets for P5.js development"],
      [id |-> <<"u","l","t","a","m","a","t","u","m",".","p","5","-","p","r","o","j","e","c","t","-","c","r","e","a","t","o","r">>,
       name |-> "P5 Project Creator", criticality |-> "CRITICAL",
       reason |-> "Required to create P5.js projects in VS Code"],
      [id |-> <<"r","i","t","w","i","c","k","d","e","y",".","l","i","v","e","s","e","r","v","e","r">>,
       name |-> "Live Server", criticality |-> "CRITICAL",
       reason |-> "Required to run local development server"],
      [id |-> <<"g","i","t","h","u","b",".","v","s","c","o","d","e","-","g","i","t","h","u","b","-","a","c","t","i","o","n","s">>,
       name |-> "GitHub Actions", criticality |-> "OPTIONAL",
       reason |-> "Helpful for managing GitHub deployments"]>>

ExtensionFix(installCommand, name) ==
    <<"Quick install: Run this command in terminal:",
      "  " \o installCommand,
      "",
      "Or install manually:",
      "  1. Open VS Code",
      "  2. Press Cmd+Shift+X (Mac) or Ctrl+Shift+X (Windows)",
      "  3. Search for \"" \o name \o "\"",
      "  4. Click Install">>

\* the membership test is made on the list as printed, without lowering it
IsInstalled_CaseSensitive(installedExtensions, extId) ==
    ArrayIncludes(Split(installedExtensions, "\n"), ToLowerCase(extId))

\* installedList.includes(extId.toLowerCase()), installedList being the lowered, split output
IsInstalled(installedExtensions, extId) ==
    ArrayIncludes(Split(ToLowerCase(installedExtensions), "\n"), ToLowerCase(extId))

\* every missing extension is reported as optional
ReportExtensionMissing_Optional(plat, path, rawWhich, ext) ==
    LET inPath == executeCommand(rawWhich)
        installCommand ==
            IF Truthy(inPath) THEN "code --install-extension " \o Str(ext.id)
            ELSE "\"" \o path \o "\" --install-extension " \o Str(ext.id)
    IN  Do(<<Called(LocateCommand(plat), rawWhich, inPath),
             printResult("failure", ext.name \o " is NOT installed", ext.reason,
                         [criticality |-> "OPTIONAL",
                          fix |-> ExtensionFix(installCommand, ext.name),
                          link |-> GuideLink]),
             Push("failed", "Extension: " \o ext.name)>>)

\* the else branch of the loop body: the extension is not installed
ReportExtensionMissing(plat, path, rawWhich, ext) ==
    LET inPath == executeCommand(rawWhich)
        installCommand ==
            IF Truthy(inPath) THEN "code --install-extension " \o Str(ext.id)
            ELSE "\"" \o path \o "\" --install-extension " \o Str(ext.id)
    IN  Do(<<Called(LocateCommand(plat), rawWhich, inPath),
             printResult("failure", ext.name \o " is NOT installed", ext.reason,
                         [criticality |-> ext.criticality,
                          fix |-> ExtensionFix(installCommand, ext.name),
                          link |-> GuideLink]),
             Push("failed", "Extension: " \o ext.name)>>)

\* the body of the loop over Object.entries(requiredExtensions), for one entry
CheckExtension(plat, path, rawWhich, installedExtensions, ext) ==
    IF IsInstalled(installedExtensions, ext.id)
    THEN Do(<<printResult("success", ext.name \o " is installed", "", NoOptions),
              Push("passed", "Extension: " \o ext.name)>>)
    ELSE ReportExtensionMissing(plat, path, rawWhich, ext)

\* the loop, entry by entry in the table's order
ExtensionLoop(plat, path, rawWhich, installedExtensions) ==
    Do([k \in DOMAIN requiredExtensions |->
           CheckExtension(plat, path, rawWhich, installedExtensions, requiredExtensions[k])])

\* only null counts as no list
ListUnusable_NullOnly(installedExtensions) == installedExtensions.isNull

\* !installedExtensions: null or the empty string
ListUnusable(installedExtensions) == ~Truthy(installedExtensions)

checkExtensions(plat, path, rawWhich, rawList) ==
    LET header == printHeader("Checking VS Code Extensions")
        installedExtensions == executeCommand(rawList)
        called == Called("\"" \o path.path \o "\" --list-extensions", rawList, installedExtensions)
    IN  IF path.isNull
        THEN [effect |-> Do(<<header,
                              print("(skip) Skipping extensions check - VS Code not found", "yellow"),
                              consoleLog("  Install VS Code first, then run this script again")>>),
              vars |-> [vscodePath |-> path]]
        ELSE IF ListUnusable(installedExtensions)
        THEN [effect |-> Do(<<header, called,
                   print("(skip) Could not retrieve extensions list", "yellow"),
                   consoleLog("  This might be a temporary issue. Try running the script again."),
                   consoleLog("  Or manually verify extensions in VS Code (Cmd/Ctrl+Shift+X)")>>),
              vars |-> [vscodePath |-> path, installedExtensions |-> installedExtensions]]
        ELSE [effect |-> Do(<<header, called,
                              ExtensionLoop(plat, path.path, rawWhich, installedExtensions.text)>>),
              vars |-> [vscodePath |-> path, installedExtensions |-> installedExtensions]]

(***************************************************************************)
(* checkGit                                                                *)
(***************************************************************************)
InstallGitFix(plat) ==
    IF plat = "darwin" THEN
        <<"Install Xcode Command Line Tools:",
          "  Run: xcode-select --install",
          "Follow the installation prompts",
          "Or download Git from: https://git-scm.com/downloads">>
    ELSE
        <<"Download Git from: https://git-scm.com/downloads",
          "Run the installer",
          "Use default settings",
          "Restart your terminal after installation">>

UserNameFix ==
    <<"Run this command in terminal:",
      "  git config --global user.name \"Your Full Name\"",
      "",
      "Example:",
      "  git config --global user.name \"Jane Smith\"">>

UserEmailFix ==
    <<"Run this command in terminal:",
      "  git config --global user.email \"your.email@ocadu.ca\"",
      "",
      "Example:",
      "  git config --global user.email \"jane.smith@ocadu.ca\"">>

OcaduEmailFix(userEmail) ==
    <<"To use your OCADU email:",
      "  git config --global user.email \"your.email@ocadu.ca\"",
      "",
      "Current email: " \o Str(userEmail),
      "",
      "Note: This is OPTIONAL. Your current setup works fine.",
      "OCADU email only needed for GitHub Education benefits.">>

\* userEmail.includes('@ocadu.ca') || userEmail.includes('@ocad.ca')
IsOcaduEmail(userEmail) ==
    \/ StringIncludes(userEmail, <<"@","o","c","a","d","u",".","c","a">>)
    \/ StringIncludes(userEmail, <<"@","o","c","a","d",".","c","a">>)

ReportUserName(userName) ==
    IF Truthy(userName)
    THEN Do(<<printResult("success", "Git user.name is configured",
                          "Name: " \o Str(userName.text), NoOptions),
              Push("passed", "Git user.name set")>>)
    ELSE Do(<<printResult("failure", "Git user.name is NOT configured",
                          "Required for Git commits",
                          [criticality |-> "CRITICAL", fix |-> UserNameFix, link |-> ""]),
              Push("failed", "Git user.name not set")>>)

ReportUserEmail(userEmail) ==
    IF Truthy(userEmail)
    THEN Do(<<printResult("success", "Git user.email is configured",
                          "Email: " \o Str(userEmail.text), NoOptions),
              Push("passed", "Git user.email set"),
              IF IsOcaduEmail(userEmail.text)
              THEN Do(<<printResult("success", "Using OCADU email address", "", NoOptions),
                        Push("passed", "OCADU email configured")>>)
              ELSE Do(<<printResult("warning", "Not using OCADU email address",
                                    "Recommended for GitHub Education benefits",
                                    [criticality |-> "OPTIONAL",
                                     fix |-> OcaduEmailFix(userEmail.text), link |-> ""]),
                        Push("warnings", "Non-OCADU email")>>)>>)
    ELSE Do(<<printResult("failure", "Git user.email is NOT configured",
                          "Required for Git commits",
                          [criticality |-> "CRITICAL", fix |-> UserEmailFix, link |-> ""]),
              Push("failed", "Git user.email not set")>>)

\* the return after the Git failure left out: the identity is queried all the same
checkGit_NoEarlyReturn(plat, rawGit, rawName, rawEmail) ==
    LET gitVersion == executeCommand(rawGit)
        userName == executeCommand(rawName)
        userEmail == executeCommand(rawEmail)
    IN  [effect |-> Do(<<printHeader("Checking Git Installation & Configuration"),
                         Called("git --version", rawGit, gitVersion),
                         IF Truthy(gitVersion)
                         THEN Do(<<printResult("success", "Git is installed",
                                               Str(gitVersion.text), NoOptions),
                                   Push("passed", "Git installed")>>)
                         ELSE Do(<<printResult("failure", "Git is NOT installed",
                                               "Required for version control",
                                               [criticality |-> "CRITICAL",
                                                fix |-> InstallGitFix(plat), link |-> GuideLink]),
                                   Push("failed", "Git not found")>>),
                         Called("git config --global user.name", rawName, userName),
                         Called("git config --global user.email", rawEmail, userEmail),
                         ReportUserName(userName),
                         ReportUserEmail(userEmail)>>),
         vars |-> [gitVersion |-> gitVersion, userName |-> userName, userEmail |-> userEmail]]

\* the email is looked at only when the name is configured
checkGit_NameGatesEmail(plat, rawGit, rawName, rawEmail) ==
    LET header == printHeader("Checking Git Installation & Configuration")
        gitVersion == executeCommand(rawGit)
        called == Called("git --version", rawGit, gitVersion)
        userName == executeCommand(rawName)
        userEmail == executeCommand(rawEmail)
    IN  IF ~Truthy(gitVersion)
        THEN [effect |-> Do(<<header, called,
                              printResult("failure", "Git is NOT installed",
                                          "Required for version control",
                                          [criticality |-> "CRITICAL",
                                           fix |-> InstallGitFix(plat), link |-> GuideLink]),
                              Push("failed", "Git not found")>>),
              vars |-> [gitVersion |-> gitVersion]]
        ELSE [effect |-> Do(<<header, called,
                              printResult("success", "Git is installed", Str(gitVersion.text),
                                          NoOptions),
                              Push("passed", "Git installed"),
                              Called("git config --global user.name", rawName, userName),
                              Called("git config --global user.email", rawEmail, userEmail),
                              ReportUserName(userName),
                              IF Truthy(userName) THEN ReportUserEmail(userEmail)
                              ELSE Nothing>>),
              vars |-> [gitVersion |-> gitVersion, userName |-> userName,
                        userEmail |-> userEmail]]

checkGit(plat, rawGit, rawName, rawEmail) ==
    LET header == printHeader("Checking Git Installation & Configuration")
        gitVersion == executeCommand(rawGit)
        called == Called("git --version", rawGit, gitVersion)
        userName == executeCommand(rawName)
        userEmail == executeCommand(rawEmail)
    IN  IF ~Truthy(gitVersion)
        THEN [effect |-> Do(<<header, called,
                              printResult("failure", "Git is NOT installed",
                                          "Required for version control",
                                          [criticality |-> "CRITICAL",
                                           fix |-> InstallGitFix(plat), link |-> GuideLink]),
                              Push("failed", "Git not found")>>),
              vars |-> [gitVersion |-> gitVersion]]
        ELSE [effect |-> Do(<<header, called,
                              printResult("success", "Git is installed", Str(gitVersion.text),
                                          NoOptions),
                              Push("passed", "Git installed"),
                              Called("git config --global user.name", rawName, userName),
                              Called("git config --global user.email", rawEmail, userEmail),
                              ReportUserName(userName),
                              ReportUserEmail(userEmail)>>),
              vars |-> [gitVersion |-> gitVersion, userName |-> userName,
                        userEmail |-> userEmail]]

(***************************************************************************)
(* checkLocalRepo                                                          *)
(***************************************************************************)
\* process.cwd()
CurrentDir(plat) == PathJoin(<<HomeDir(plat), "sketch">>, IF plat = "win32" THEN "\\" ELSE "/")

\* path.join(currentDir, '.git')
GitDir(plat) == PathJoin(<<CurrentDir(plat), ".git">>, IF plat = "win32" THEN "\\" ELSE "/")

NoRemoteFix ==
    <<"Create a GitHub repository first (if you haven't):",
      "  1. Go to https://github.com/new",
      "  2. Create a new repository",
      "",
      "Then connect it to this local repository:",
      "  git remote add origin https://github.com/USERNAME/REPO-NAME.git",
      "  git branch -M main",
      "  git push -u origin main",
      "",
      "Replace USERNAME and REPO-NAME with your details">>

UncommittedFix ==
    <<"To see what files changed:",
      "  git status",
      "",
      "To commit your changes:",
      "  git add .",
      "  git commit -m \"Describe your changes\"",
      "  git push",
      "",
      "Note: This is OPTIONAL. Uncommitted changes don't break anything.">>

NotARepoFix(currentDir) ==
    <<"This is OPTIONAL - you can run this script from anywhere.",
      "For repository-specific checks, navigate to your project first:",
      "  cd path/to/your/repository",
      "  npx @digitalfutures/vscode-setup-check",
      "",
      "Or if you don't have a repository yet, see the setup guide.",
      "",
      "Current directory: " \o currentDir>>

ReportRemote(remoteUrl) ==
    IF Truthy(remoteUrl)
    THEN Do(<<printResult("success", "Remote repository configured", Str(remoteUrl.text),
                          NoOptions),
              Push("passed", "Remote configured"),
              IF StringIncludes(remoteUrl.text, <<"g","i","t","h","u","b",".","c","o","m">>)
              THEN Do(<<printResult("success", "Repository is hosted on GitHub", "", NoOptions),
                        Push("passed", "GitHub repository")>>)
              ELSE Nothing>>)
    ELSE Do(<<printResult("warning", "No remote repository configured",
                          "Needed for GitHub Pages deployment",
                          [criticality |-> "IMPORTANT", fix |-> NoRemoteFix, link |-> GuideLink]),
              Push("warnings", "No remote configured")>>)

ReportBranch(branch) ==
    IF Truthy(branch)
    THEN Do(<<printResult("success", "Current branch: " \o Str(branch.text), "", NoOptions),
              Push("passed", "Branch: " \o Str(branch.text))>>)
    ELSE Nothing

\* the number of line feeds of the status
FileCount_LineFeeds(status) == Len(Split(Trim(status), "\n")) - 1

\* status.trim().split('\n').length
FileCount(status) == Len(Split(Trim(status), "\n"))

ReportStatus(status) ==
    IF Truthy(status)
    THEN Do(<<printResult("warning",
                          "You have " \o ToString(FileCount(status.text)) \o " uncommitted change(s)",
                          "Not critical, but good practice to commit regularly",
                          [criticality |-> "OPTIONAL", fix |-> UncommittedFix, link |-> ""]),
              Push("warnings", "Uncommitted changes")>>)
    ELSE Do(<<printResult("success", "Working directory is clean", "", NoOptions),
              Push("passed", "Clean working directory")>>)

\* every directory is taken for a repository
IsRepo_Always(gitDirExists) == TRUE

\* const isRepo = fs.existsSync(gitDir)
IsRepo(gitDirExists) == gitDirExists

checkLocalRepo(plat, gitDirExists, rawRemote, rawBranch, rawStatus) ==
    LET header == printHeader("Checking Local Repository")
        tested == Existed(GitDir(plat), gitDirExists)
        remoteUrl == executeCommand(rawRemote)
        branch == executeCommand(rawBranch)
        status == executeCommand(rawStatus)
    IN  IF IsRepo(gitDirExists)
        THEN [effect |-> Do(<<header, tested,
                              printResult("success", "Current directory is a Git repository", "",
                                          NoOptions),
                              Push("passed", "Git repository found"),
                              Called("git remote get-url origin", rawRemote, remoteUrl),
                              ReportRemote(remoteUrl),
                              Called("git branch --show-current", rawBranch, branch),
                              ReportBranch(branch),
                              Called("git status --porcelain", rawStatus, status),
                              ReportStatus(status)>>),
              vars |-> [isRepo |-> TRUE, remoteUrl |-> remoteUrl, branch |-> branch,
                        status |-> status]]
        ELSE [effect |-> Do(<<header, tested,
                              printResult("warning", "Current directory is NOT a Git repository",
                                          "Run from your project folder for repository checks",
                                          [criticality |-> "OPTIONAL",
                                           fix |-> NotARepoFix(CurrentDir(plat)),
                                           link |-> GuideLink]),
                              Push("warnings", "Not in Git repository")>>),
              vars |-> [isRepo |-> FALSE]]

(***************************************************************************)
(* printManualChecklist and printSummary                                   *)
(***************************************************************************)
ManualChecklist ==
    <<"\n[ ] GitHub account created with @ocadu.ca email",
      "[ ] Signed into VS Code with GitHub account",
      "[ ] GitHub Desktop installed and signed in",
      "[ ] GitHub Mobile app installed on phone",
      "[ ] GitLens extension authorized in VS Code",
      "[ ] GitHub Actions extension authorized in VS Code",
      "[ ] GitHub Copilot Pro subscription activated",
      "[ ] Two-factor authentication enabled on GitHub",
      "[ ] GitHub repository created with Pages enabled",
      "[ ] GitHub Actions workflow configured",
      "[ ] Repository cloned locally",
      "[ ] Can create P5.js project using Command Palette",
      "[ ] Live Server can launch local development server",
      "[ ] VS Code Tunnel can be created and accessed",
      "[ ] Chrome DevTools accessible (F12 or Cmd+Option+I)">>

\* one console.log per line
LogAll(lines) ==
    [Nothing EXCEPT !.out = [i \in DOMAIN lines |-> [color |-> "none", text |-> lines[i]]]]

printManualChecklist ==
    Do(<<printHeader("Manual Verification Checklist"),
         print("\nThe following items require manual verification:", "cyan"),
         LogAll(ManualChecklist),
         print("\n(books) Refer to the setup guides at:", "cyan"),
         consoleLog("   " \o GuideLink)>>)

\* the percentage truncated instead of rounded
PassRate_Floor(passedCount, total) ==
    IF total > 0 THEN (100 * passedCount) \div total ELSE 0

\* total > 0 ? Math.round((passed / total) * 100) : 0; Math.round rounds halves up
PassRate(passedCount, total) ==
    IF total > 0 THEN (200 * passedCount + total) \div (2 * total) ELSE 0

MsgPerfect == "(party) Perfect! All automated checks passed!"
MsgWorking == "(check) Your system is working correctly!"
MsgCritical == "(red) CRITICAL issues found - these must be fixed!"
MsgRecommended == "(warn)  Some recommended items need attention."
SummaryMessages == {MsgPerfect, MsgWorking, MsgCritical, MsgRecommended}

\* the all-clear test left out
SummaryChoice_NoAllClear(r) ==
    IF Len(r.critical) = 0 /\ Len(r.important) = 0 THEN MsgWorking
    ELSE IF Len(r.critical) > 0 THEN MsgCritical
    ELSE MsgRecommended

\* the if-chain that picks the context-specific feedback
SummaryChoice(r) ==
    IF Len(r.failed) = 0 /\ Len(r.warnings) = 0 THEN MsgPerfect
    ELSE IF Len(r.critical) = 0 /\ Len(r.important) = 0 THEN MsgWorking
    ELSE IF Len(r.critical) > 0 THEN MsgCritical
    ELSE MsgRecommended

\* the lines printed under each choice
Feedback(choice) ==
    IF choice = MsgPerfect
    THEN Do(<<print(MsgPerfect, "green"),
              print("Please complete the manual verification checklist above.", "cyan")>>)
    ELSE IF choice = MsgWorking
    THEN Do(<<print(MsgWorking, "green"),
              print("The failed/warning items are OPTIONAL and don't affect functionality.", "cyan"),
              print("You can safely proceed with development.", "cyan")>>)
    ELSE IF choice = MsgCritical
    THEN Do(<<print(MsgCritical, "red"),
              print("Review the fix instructions above for each critical item.", "yellow")>>)
    ELSE Do(<<print(MsgRecommended, "yellow"),
              print("Your system may work, but fixing these will improve functionality.", "cyan")>>)

\* the criticality breakdown
Breakdown(r) ==
    IF Len(r.critical) > 0 \/ Len(r.important) > 0 \/ Len(r.optional) > 0
    THEN Do(<<consoleLog("\nFailed Items by Criticality:"),
              IF Len(r.critical) > 0
              THEN print("  (red) Critical: " \o ToString(Len(r.critical))
                         \o " - Must fix for development to work", "red")
              ELSE Nothing,
              IF Len(r.important) > 0
              THEN print("  (yellow) Important: " \o ToString(Len(r.important))
                         \o " - Recommended for full functionality", "yellow")
              ELSE Nothing,
              IF Len(r.optional) > 0
              THEN print("  (green) Optional: " \o ToString(Len(r.optional))
                         \o " - Nice to have, not required", "green")
              ELSE Nothing>>)
    ELSE Nothing

\* r is the accumulator as printSummary finds it
printSummary(r) ==
    LET total == Len(r.passed) + Len(r.failed) + Len(r.warnings)
        passRate == PassRate(Len(r.passed), total)
    IN  [effect |-> Do(<<printHeader("Setup Verification Summary"),
                         print("\n[ok] Passed: " \o ToString(Len(r.passed)), "green"),
                         print("[x] Failed: " \o ToString(Len(r.failed)), "red"),
                         print("[!] Warnings: " \o ToString(Len(r.warnings)), "yellow"),
                         consoleLog("\nCompletion Rate: " \o ToString(passRate) \o "%"),
                         Breakdown(r),
                         consoleLog(""),
                         Feedback(SummaryChoice(r)),
                         consoleLog("\n(books) For detailed guides, visit:"),
                         consoleLog("   " \o GuideLink),
                         consoleLog("(?) For help, run: npx @digitalfutures/vscode-setup-check --help"),
                         consoleLog("\n")>>),
         vars |-> [total |-> total, passRate |-> passRate]]

(***************************************************************************)
(* The help flag                                                           *)
(***************************************************************************)
HELP_TEXT ==
    "\nVS Code Mobile Development Setup Verification Script\n"
    \o "====================================================\n\n"
    \o "USAGE:\n"
    \o "  npx @digitalfutures/vscode-setup-check          Run verification checks\n"
    \o "  npx @digitalfutures/vscode-setup-check --help   Show this help message\n\n"
    \o "WHAT THIS SCRIPT DOES:\n"
    \o "  Automatically verifies your development environment setup including:\n"
    \o "  - Software installation (Node.js, VS Code, Git)\n"
    \o "  - VS Code extensions (GitLens, p5js, Live Server, etc.)\n"
    \o "  - Git configuration (username, email)\n"
    \o "  - Repository status and structure (if run from a repo)\n\n"
    \o "OUTPUT:\n"
    \o "  [ok] Green checkmarks = Passed\n"
    \o "  [x] Red X marks = Failed (with fix instructions)\n"
    \o "  [!] Yellow warnings = Attention needed\n\n"
    \o "CRITICALITY LEVELS:\n"
    \o "  (red) CRITICAL   - Must be fixed for development to work\n"
    \o "  (yellow) IMPORTANT  - Recommended for full functionality\n"
    \o "  (green) OPTIONAL   - Nice to have, but not required\n\n"
    \o "TROUBLESHOOTING:\n"
    \o "  Each failed check includes:\n"
    \o "  - Why it's important (criticality level)\n"
    \o "  - How to fix it (automated script or manual steps)\n"
    \o "  - Links to relevant documentation\n\n"
    \o "For detailed setup instructions, see: \n"
    \o GuideLink \o "\n"

\* only the long form of the flag is recognised
HelpRequested_LongOnly(args) == \E i \in DOMAIN args : args[i] = "--help"

\* process.argv.includes('--help') || process.argv.includes('-h')
HelpRequested(args) ==
    \/ \E i \in DOMAIN args : args[i] = "--help"
    \/ \E i \in DOMAIN args : args[i] = "-h"

(***************************************************************************)
(* The environments a run is checked in.                                   *)
(***************************************************************************)
ArgvChoices == {<<>>, <<"--help">>, <<"-h">>, <<"--verbose", "-h">>}

Platforms == {"darwin", "win32", "linux"}

\* process.env: on Windows LOCALAPPDATA is set and the PROGRAMFILES pair is left to its
\* fallback, elsewhere none of the three is set
EnvUnset == [LOCALAPPDATA |-> "", PROGRAMFILES |-> "", PROGRAMFILES_X86 |-> ""]
EnvOf(plat) ==
    IF plat = "win32"
    THEN {[LOCALAPPDATA |-> "C:\\Users\\student\\AppData\\Local",
           PROGRAMFILES |-> "", PROGRAMFILES_X86 |-> ""]}
    ELSE {EnvUnset}

ExecErrors == {"ENOENT", "EXIT", "ETIMEDOUT"}

WhichRaw(plat) ==
    {Fails("EXIT"),
     IF plat = "win32" THEN Ok(<<"C",":","\\","b","i","n","\\","c","o","d","e",".","c","m","d","\r","\n">>) ELSE Ok(<<"/","u","s","r","/","l","o","c","a","l","/","b","i","n","/","c","o","d","e","\n">>)}

NodeRaw == {Fails(k) : k \in ExecErrors} \cup {Ok(<<"v","2","0",".","1","\n">>), Ok(<<" ","\n">>)}
NpmRaw == {Fails("ENOENT"), Ok(<<"1","0",".","2","\n">>), Ok(<<" ","1","0",".","2","\r","\n">>)}
VersionRaw == {Fails("EXIT"), Ok(<<"1",".","9","5","\n","a","b","c","1","\n","x","6","4","\n">>)}

\* an identifier as the marketplace may print it
Cased(id, casing) ==
    IF casing = "upper" THEN [i \in DOMAIN id |-> ToUpperChar(id[i])]
    ELSE IF casing = "capital" THEN [i \in DOMAIN id |-> IF i = 1 THEN ToUpperChar(id[i]) ELSE id[i]]
    ELSE id

Casings == {"lower", "upper", "capital"}

\* extensions that are not required ones; the first has a required identifier as a prefix
OtherExtensions == <<<<"e","a","m","o","d","i","o",".","g","i","t","l","e","n","s","-","i","n","s","i","d","e","r","s">>,
                     <<"m","s","-","p","y","t","h","o","n",".","p","y","t","h","o","n">>>>

RECURSIVE JoinLines(_)
JoinLines(lines) ==
    IF lines = <<>> THEN <<>> ELSE Head(lines) \o <<"\n">> \o JoinLines(Tail(lines))

RECURSIVE PresentLines(_, _, _)
PresentLines(present, casing, k) ==
    IF k > Len(requiredExtensions) THEN <<>>
    ELSE (IF k \in present THEN <<Cased(requiredExtensions[k].id, casing)>> ELSE <<>>)
         \o PresentLines(present, casing, k + 1)

\* the output of --list-extensions: one identifier per line
ListOutput(present, casing, others) ==
    JoinLines((IF others THEN <<OtherExtensions[1]>> ELSE <<>>)
              \o PresentLines(present, casing, 1)
              \o (IF others THEN <<OtherExtensions[2]>> ELSE <<>>))

\* every answer of the family: any set of required extensions, in any casing
ListRawAll ==
    {Fails("EXIT")}
    \cup {Ok(ListOutput(present, casing, others)) :
            present \in SUBSET (1..Len(requiredExtensions)),
            casing \in Casings, others \in BOOLEAN}

\* the answers a whole run is checked with: no answer, an empty list, and lists with
\* all, none, all but GitLens, all but Live Server, all but GitHub Actions
ListRaw ==
    {Fails("EXIT"), Ok(ListOutput({}, "lower", FALSE))}
    \cup {Ok(ListOutput(present, "capital", TRUE)) :
            present \in {1..5, {}, 2..5, {1, 2, 3, 5}, 1..4}}

\* every filesystem: each set of candidate paths
ExistingSetsAll(paths) == SUBSET {paths[i] : i \in DOMAIN paths}

\* the filesystems a whole run is checked with: no candidate path, all, only the last
ExistingSets(paths) ==
    {{}, {paths[i] : i \in DOMAIN paths}, {paths[Len(paths)]}}

GitRaw == {Fails("ENOENT"), Ok(<<"g","i","t"," ","v","e","r","s","i","o","n"," ","2",".","4","\n">>)}
NameRaw == {Fails("EXIT"), Ok(<<"J","a","n","e","\n">>)}
EmailRaw == {Fails("EXIT"), Ok(<<"s","t","u","d","e","n","t","@","o","c","a","d","u",".","c","a","\n">>),
             Ok(<<"j","@","g","m","a","i","l",".","c","o","m","\n">>)}
\* every answer of the family: the two institutional domains, another domain, a
\* domain that only starts like an institutional one, and an empty answer
EmailRawAll ==
    EmailRaw \cup {Ok(<<"j","@","o","c","a","d",".","c","a","\n">>),
                  Ok(<<"s","t","u","d","e","n","t","@","o","c","a","d","u",".","c","a",".","e","x","a","m","p","l","e",".","o","r","g","\n">>),
                  Ok(<<"\n">>)}

RemoteRaw == {Fails("EXIT"), Ok(<<"h","t","t","p","s",":","/","/","g","i","t","h","u","b",".","c","o","m","/","u","/","r",".","g","i","t","\n">>),
              Ok(<<"g","i","t","@","g","i","t","l","a","b",".","c","o","m",":","u","/","r",".","g","i","t","\n">>)}
BranchRaw == {Fails("EXIT"), Ok(<<"m","a","i","n","\n">>)}

\* every answer of the family: also GitHub over ssh, another host whose path holds the
\* name of GitHub's domain, and an empty answer
RemoteRawAll ==
    RemoteRaw \cup {Ok(<<"g","i","t","@","g","i","t","h","u","b",".","c","o","m",":","u","/","r",".","g","i","t","\n">>),
                    Ok(<<"h","t","t","p","s",":","/","/","g","i","t","l","a","b",".","c","o","m","/","u","/","g","i","t","h","u","b",".","c","o","m",".","g","i","t","\n">>),
                    Ok(<<"\n">>)}

\* every answer of the family: also no branch name, as on a detached HEAD
BranchRawAll == BranchRaw \cup {Ok(<<"\n">>)}

\* a porcelain answer of n lines
RECURSIVE StatusLines(_)
StatusLines(n) ==
    IF n = 0 THEN <<>> ELSE StatusLines(n - 1) \o <<" ","M"," ","a",".","j","s","\n">>

\* the answers a whole run is checked with: no answer, no line, MaxChanges lines
StatusRaw == {Fails("EXIT"), Ok(StatusLines(0)), Ok(StatusLines(MaxChanges))}

\* every answer of the family: no answer, one blank line, and 0..MaxChanges lines
StatusRawAll ==
    {Fails("EXIT"), Ok(<<"\n">>)} \cup {Ok(StatusLines(n)) : n \in 0..MaxChanges}

(***************************************************************************)
(* The run as a state machine.                                             *)
(***************************************************************************)
NoLocals == [fn |-> "none", execs |-> <<>>, exists |-> <<>>, vars |-> [none |-> TRUE]]

Init ==
    /\ argv \in ArgvChoices
    /\ platform \in Platforms
    /\ env \in EnvOf(platform)
    /\ whichCode \in WhichRaw(platform)
    /\ results = EmptyResults
    /\ output = <<>>
    /\ calls = <<>>
    /\ fsChecks = <<>>
    /\ trace = <<>>
    /\ vscodePath = NullPath
    /\ locals = NoLocals
    /\ pc = "start"
    /\ exitCode = -1

\* main's call of function fn had this effect (or threw); next is what follows it
Return(fn, effect, fnVars, next) ==
    /\ results' = ResultsAfter(results, effect)
    /\ output' = output \o effect.out
    /\ calls' = calls \o [i \in DOMAIN effect.execs |-> effect.execs[i].command]
    /\ fsChecks' = fsChecks \o [i \in DOMAIN effect.exists |-> effect.exists[i].path]
    /\ trace' = Append(trace, fn)
    /\ locals' = [fn |-> fn, execs |-> effect.execs, exists |-> effect.exists, vars |-> fnVars]
    /\ pc' = IF effect.threw THEN "crashed" ELSE next
    /\ exitCode' = IF effect.threw THEN 1 ELSE IF next = "done" THEN 0 ELSE exitCode
    /\ UNCHANGED <<argv, platform, env, whichCode>>

\* the help flag is given: print the help text and process.exit(0)
Help ==
    /\ pc = "start"
    /\ HelpRequested(argv)
    /\ output' = Append(output, [color |-> "none", text |-> HELP_TEXT])
    /\ pc' = "exited"
    /\ exitCode' = 0
    /\ UNCHANGED <<argv, platform, env, whichCode, results, calls, fsChecks, trace,
                   vscodePath, locals>>

\* no help flag: main() starts, clears the console and prints the banner
MainStart ==
    /\ pc = "start"
    /\ ~HelpRequested(argv)
    /\ output' = output \o
         <<[color |-> "cyan", text |-> "+============================================================+"],
           [color |-> "cyan", text |-> "|   VS Code Mobile Development Setup Verification Script    |"],
           [color |-> "cyan", text |-> "+============================================================+"]>>
    /\ pc' = "checkNode"
    /\ UNCHANGED <<argv, platform, env, whichCode, results, calls, fsChecks, trace,
                   vscodePath, locals, exitCode>>

CheckNode ==
    /\ pc = "checkNode"
    /\ \E rawNode \in NodeRaw, rawNpm \in NpmRaw :
         \E r \in {checkNode(rawNode, rawNpm)} :
           Return("checkNode", r.effect, r.vars, "checkVSCode")
    /\ UNCHANGED vscodePath

\* checkVSCode, the filesystem holding one of the given sets of paths
CheckVSCodeFrom(filesystems) ==
    /\ pc = "checkVSCode"
    /\ \E existing \in filesystems, rawVersion \in VersionRaw :
         \E r \in {checkVSCode(platform, env, whichCode, existing, rawVersion)} :
           /\ Return("checkVSCode", r.effect, r.vars, "checkExtensions")
           /\ vscodePath' = r.value

CheckVSCode == CheckVSCodeFrom(ExistingSets(possiblePaths(platform, env)))

\* checkExtensions, the answer of --list-extensions being one of those given
CheckExtensionsFrom(lists) ==
    /\ pc = "checkExtensions"
    /\ \E rawList \in lists :
         \E r \in {checkExtensions(platform, vscodePath, whichCode, rawList)} :
           Return("checkExtensions", r.effect, r.vars, "checkGit")
    /\ UNCHANGED vscodePath

CheckExtensions == CheckExtensionsFrom(ListRaw)

\* checkGit, the answer of the user.email query being one of those given
CheckGitFrom(emails) ==
    /\ pc = "checkGit"
    /\ \E rawGit \in GitRaw, rawName \in NameRaw, rawEmail \in emails :
         \E r \in {checkGit(platform, rawGit, rawName, rawEmail)} :
           Return("checkGit", r.effect, r.vars, "checkLocalRepo")
    /\ UNCHANGED vscodePath

CheckGit == CheckGitFrom(EmailRaw)

\* checkLocalRepo, the answers of its three queries being among those given
CheckLocalRepoOn(remotes, branches, statuses) ==
    /\ pc = "checkLocalRepo"
    /\ \E gitDirExists \in BOOLEAN, rawRemote \in remotes, rawBranch \in branches,
          rawStatus \in statuses :
         \E r \in {checkLocalRepo(platform, gitDirExists, rawRemote, rawBranch, rawStatus)} :
           Return("checkLocalRepo", r.effect, r.vars, "printManualChecklist")
    /\ UNCHANGED vscodePath

\* checkLocalRepo, the answer of the status query being one of those given
CheckLocalRepoFrom(statuses) == CheckLocalRepoOn(RemoteRaw, BranchRaw, statuses)

CheckLocalRepo == CheckLocalRepoFrom(StatusRaw)

PrintManualChecklist ==
    /\ pc = "printManualChecklist"
    /\ \E effect \in {printManualChecklist} :
         Return("printManualChecklist", effect, [none |-> TRUE], "printSummary")
    /\ UNCHANGED vscodePath

\* printSummary, then main returns and the process ends with status 0
PrintSummary ==
    /\ pc = "printSummary"
    /\ \E r \in {printSummary(results)} :
         Return("printSummary", r.effect, r.vars, "done")
    /\ UNCHANGED vscodePath

Next ==
    \/ Help
    \/ MainStart
    \/ CheckNode
    \/ CheckVSCode
    \/ CheckExtensions
    \/ CheckGit
    \/ CheckLocalRepo
    \/ PrintManualChecklist
    \/ PrintSummary

Spec == Init /\ [][Next]_vars

\* The script is synchronous code: once started, each call main makes returns and the
\* next statement runs.  execSync returns or throws when the child process ends, so the
\* fairness below holds of the runs in which every child process ends.
FairSpec == Spec /\ WF_vars(Next)

(***************************************************************************)
(* The run up to the end of checkExtensions, on every list of the family.  *)
(***************************************************************************)
CheckExtensionsAll == CheckExtensionsFrom(ListRawAll)

NextExtensions ==
    \/ Help
    \/ MainStart
    \/ CheckNode
    \/ CheckVSCode
    \/ CheckExtensionsAll

SpecExtensions == Init /\ [][NextExtensions]_vars

(***************************************************************************)
(* The run up to the end of checkGit, on every email of the family.        *)
(***************************************************************************)
CheckGitAll == CheckGitFrom(EmailRawAll)

NextGit ==
    \/ Help
    \/ MainStart
    \/ CheckNode
    \/ CheckVSCode
    \/ CheckExtensions
    \/ CheckGitAll

SpecGit == Init /\ [][NextGit]_vars

(***************************************************************************)
(* The run up to the end of checkLocalRepo, on every status of the family. *)
(***************************************************************************)
CheckLocalRepoAll == CheckLocalRepoFrom(StatusRawAll)

NextRepo ==
    \/ Help
    \/ MainStart
    \/ CheckNode
    \/ CheckVSCode
    \/ CheckExtensions
    \/ CheckGit
    \/ CheckLocalRepoAll

SpecRepo == Init /\ [][NextRepo]_vars

(***************************************************************************)
(* The run up to the end of checkExtensions, on every filesystem.          *)
(***************************************************************************)
CheckVSCodeAll == CheckVSCodeFrom(ExistingSetsAll(possiblePaths(platform, env)))

NextVSCode ==
    \/ Help
    \/ MainStart
    \/ CheckNode
    \/ CheckVSCodeAll
    \/ CheckExtensions

SpecVSCode == Init /\ [][NextVSCode]_vars

(***************************************************************************)
(* The run up to the end of checkLocalRepo, on every remote and branch of  *)
(* the families.                                                           *)
(***************************************************************************)
CheckLocalRepoRemotes == CheckLocalRepoOn(RemoteRawAll, BranchRawAll, StatusRaw)

NextRemote ==
    \/ Help
    \/ MainStart
    \/ CheckNode
    \/ CheckVSCode
    \/ CheckExtensions
    \/ CheckGit
    \/ CheckLocalRepoRemotes

SpecRemote == Init /\ [][NextRemote]_vars

(***************************************************************************)
(* printSummary alone, on every accumulator of at most MaxCount passed,    *)
(* failed and warning entries.  Every failure the script reports carries a *)
(* criticality and is pushed on `failed` right after printResult filed it  *)
(* in a bucket, so the buckets together hold as many entries as `failed`.  *)
(***************************************************************************)
Items(n) == [i \in 1..n |-> "item"]

InitSummary ==
    /\ argv = <<>>
    /\ platform = "linux"
    /\ env = EnvUnset
    /\ whichCode = Fails("EXIT")
    /\ \E p \in 0..MaxCount, w \in 0..MaxCount,
          c \in 0..MaxCount, i \in 0..MaxCount, o \in 0..MaxCount :
         /\ c + i + o <= MaxCount
         /\ results = [passed |-> Items(p), failed |-> Items(c + i + o),
                       warnings |-> Items(w), critical |-> Items(c),
                       important |-> Items(i), optional |-> Items(o)]
    /\ output = <<>>
    /\ calls = <<>>
    /\ fsChecks = <<>>
    /\ trace = <<>>
    /\ vscodePath = NullPath
    /\ locals = NoLocals
    /\ pc = "printSummary"
    /\ exitCode = -1

SpecSummary == InitSummary /\ [][PrintSummary]_vars

(***************************************************************************)
(* Properties.                                                             *)
(***************************************************************************)
\* the console shows a line with this text
Emitted(text) == \E i \in DOMAIN output : output[i].text = text

\* how many console lines show one of the four summary messages
SummaryLines == Cardinality({i \in DOMAIN output : output[i].text \in SummaryMessages})

\* in every state of a run the buckets together hold as many entries as failed
BucketsMatchFailed ==
    Len(results.critical) + Len(results.important) + Len(results.optional)
        = Len(results.failed)

\* C1: once printSummary has run, the console shows exactly one of the four summary
\* messages: the all-clear one when failed and warnings are both empty; else the
\* working-correctly one when critical and important are both empty; else the
\* must-fix one when critical is not empty; else the recommended-items one.
C1_OneMessageByPrecedence ==
    pc = "done" =>
        LET allClear == Len(results.failed) = 0 /\ Len(results.warnings) = 0
            onlyOptional == Len(results.critical) = 0 /\ Len(results.important) = 0
        IN  /\ SummaryLines = 1
            /\ allClear => Emitted(MsgPerfect)
            /\ ~allClear /\ onlyOptional => Emitted(MsgWorking)
            /\ ~allClear /\ ~onlyOptional /\ Len(results.critical) > 0 => Emitted(MsgCritical)
            /\ ~allClear /\ ~onlyOptional /\ Len(results.critical) = 0 => Emitted(MsgRecommended)

\* C1 witness: a summary of an accumulator with critical and important entries
C1_Witness ==
    /\ pc = "done"
    /\ Len(results.critical) > 0
    /\ Len(results.important) > 0
    /\ Emitted(MsgCritical)

\* list holds item
InList(list, item) == \E i \in DOMAIN list : list[i] = item

\* the failed entries of the items documented as CRITICAL: VS Code, Git, user.name,
\* user.email, P5 Project Creator, Live Server
CriticalFailures ==
    {"VS Code not found", "Git not found", "Git user.name not set",
     "Git user.email not set", "Extension: P5 Project Creator", "Extension: Live Server"}

\* the failed entries of Node.js, GitLens and p5js Snippets, documented as IMPORTANT
ImportantFailures ==
    {"Node.js not found", "Extension: GitLens", "Extension: p5js Snippets"}

CriticalFailed == \E m \in CriticalFailures : InList(results.failed, m)

\* an IMPORTANT item is unsatisfied: one of the three failed, or no remote is configured
ImportantUnsatisfied ==
    \/ \E m \in ImportantFailures : InList(results.failed, m)
    \/ InList(results.warnings, "No remote configured")

\* C2: at the end of a run in which no CRITICAL item failed and an IMPORTANT item
\* (Node.js, GitLens, p5js Snippets, the remote repository) is unsatisfied, the summary
\* shows the recommended-items message; it shows the working-correctly message only
\* when no CRITICAL and no IMPORTANT item is unsatisfied.
C2_ImportantSelectsRecommended ==
    pc = "done" =>
        /\ ~CriticalFailed /\ ImportantUnsatisfied => Emitted(MsgRecommended)
        /\ Emitted(MsgWorking) => ~CriticalFailed /\ ~ImportantUnsatisfied

\* C3: at the end of a run in which a CRITICAL item failed, the summary shows the
\* must-fix message and no other one; the critical bucket is then not empty and the
\* failed list neither, so the all-clear test, made first, does not hold.
C3_CriticalSelectsMustFix ==
    pc = "done" /\ CriticalFailed =>
        /\ Emitted(MsgCritical)
        /\ SummaryLines = 1
        /\ Len(results.critical) > 0
        /\ Len(results.failed) > 0

\* C3 witness: a run ends with user.email unset, Node.js missing, and the must-fix message
C3_Witness ==
    /\ pc = "done"
    /\ InList(results.failed, "Git user.email not set")
    /\ InList(results.failed, "Node.js not found")
    /\ Len(results.important) > 0
    /\ Emitted(MsgCritical)

\* C4: the completion rate printSummary prints is 100 * passed / total rounded to the
\* nearest integer, halves up, and 0 when passed, failed and warnings are all empty.
C4_CompletionRateRounded ==
    pc = "done" =>
        LET passedCount == Len(results.passed)
            total == Len(results.passed) + Len(results.failed) + Len(results.warnings)
        IN  \E rate \in 0..100 :
              /\ Emitted("\nCompletion Rate: " \o ToString(rate) \o "%")
              /\ locals.vars.passRate = rate
              /\ total = 0 => rate = 0
              /\ total > 0 => /\ (2 * rate - 1) * total <= 200 * passedCount
                              /\ 200 * passedCount < (2 * rate + 1) * total

\* C4 witness: 3 passed out of 8 is 37.5 percent and is printed as 38
C4_Witness ==
    /\ pc = "done"
    /\ Len(results.passed) = 3
    /\ Len(results.failed) + Len(results.warnings) = 5
    /\ Emitted("\nCompletion Rate: 38%")

\* the arguments hold --help or -h
HelpFlagGiven == \E i \in DOMAIN argv : argv[i] \in {"--help", "-h"}

\* C5: with --help or -h among the arguments the script does nothing but print the help
\* text and exit with status 0: no command is run, no path is tested, the accumulator
\* stays empty, and no function of main is called.
C5_HelpExitsBeforeProbes ==
    HelpFlagGiven =>
        /\ pc \in {"start", "exited"}
        /\ calls = <<>>
        /\ fsChecks = <<>>
        /\ results = EmptyResults
        /\ trace = <<>>
        /\ pc = "start" => output = <<>> /\ exitCode = -1
        /\ pc = "exited" => output = <<[color |-> "none", text |-> HELP_TEXT]>> /\ exitCode = 0

\* C5 witness: the script has exited on -h given after another argument
C5_Witness ==
    /\ argv = <<"--verbose", "-h">>
    /\ pc = "exited"
    /\ exitCode = 0
    /\ output = <<[color |-> "none", text |-> HELP_TEXT]>>

\* the functions main calls, in the order it calls them
MainSteps ==
    <<"checkNode", "checkVSCode", "checkExtensions", "checkGit", "checkLocalRepo",
      "printManualChecklist", "printSummary">>

\* s is an initial part of t
IsPrefix(s, t) == Len(s) <= Len(t) /\ s = SubSeq(t, 1, Len(s))

\* C6: without a help flag, whatever the commands and the filesystem answer, main calls
\* checkNode, checkVSCode, checkExtensions, checkGit, checkLocalRepo,
\* printManualChecklist and printSummary once each in this order; no call throws; the
\* end of the run, after printSummary, is always reached; and the run ends with exit
\* status 0 whatever was recorded.
C6_AllStepsOnceInOrder ==
    /\ [](~HelpFlagGiven =>
            /\ IsPrefix(trace, MainSteps)
            /\ pc \notin {"crashed", "exited"}
            /\ exitCode \in {-1, 0}
            /\ pc = "done" <=> exitCode = 0
            /\ pc = "done" <=> trace = MainSteps)
    /\ (~HelpFlagGiven /\ pc = "start")
          ~> (pc = "done" /\ trace = MainSteps /\ exitCode = 0)

\* C6 witness: a run in which Node.js, VS Code and Git were all missing has ended with status 0
C6_Witness ==
    /\ pc = "done"
    /\ exitCode = 0
    /\ trace = MainSteps
    /\ InList(results.failed, "Node.js not found")
    /\ InList(results.failed, "VS Code not found")
    /\ InList(results.failed, "Git not found")
    /\ InList(results.warnings, "Not in Git repository")

\* t is s without the white space at its two ends
IsTrimOf(t, s) ==
    \E i \in 0..Len(s), j \in 0..Len(s) :
        /\ i + Len(t) + j = Len(s)
        /\ \A k \in 1..i : s[k] \in WhiteSpace
        /\ \A k \in (Len(s) - j + 1)..Len(s) : s[k] \in WhiteSpace
        /\ t = SubSeq(s, i + 1, Len(s) - j)
        /\ t # <<>> => t[1] \notin WhiteSpace /\ t[Len(t)] \notin WhiteSpace

\* C7: every call of executeCommand returns normally; when execSync gave the command's
\* output it returns that output without the white space at its ends, and when execSync
\* threw (binary missing, non-zero exit, timeout) it returns null.
C7_ExecuteCommandTrimsOrNull ==
    /\ pc # "crashed"
    /\ \A i \in DOMAIN locals.execs :
         LET call == locals.execs[i]
         IN  /\ call.value.type = "normal"
             /\ call.raw.ok => ~call.value.isNull /\ IsTrimOf(call.value.text, call.raw.stdout)
             /\ ~call.raw.ok => call.value.isNull /\ call.value.text = <<>>

\* C7 witness: checkNode got null for a timed-out `node --version` and "10.2" for an
\* npm answer with white space at both ends
C7_Witness ==
    /\ locals.fn = "checkNode"
    /\ locals.execs[1].raw = Fails("ETIMEDOUT")
    /\ locals.execs[1].value.isNull
    /\ locals.execs[2].raw.stdout = <<" ", "1", "0", ".", "2", "\r", "\n">>
    /\ locals.execs[2].value.text = <<"1", "0", ".", "2">>

\* the passed entries that record the success of a command run by function fn
SuccessEntries(fn, command) ==
    CASE command = "node --version" -> {"Node.js installed"}
      [] command = "npm --version" -> {"npm installed"}
      [] command \in {"which code", "where code.cmd"} -> {"VS Code in PATH"}
      [] command = "git --version" -> {"Git installed"}
      [] command = "git config --global user.name" -> {"Git user.name set"}
      [] command = "git config --global user.email" ->
            {"Git user.email set", "OCADU email configured"}
      [] command = "git remote get-url origin" -> {"Remote configured", "GitHub repository"}
      [] command = "git branch --show-current" -> {"Branch: main", "Branch: "}
      [] command = "git status --porcelain" -> {"Clean working directory"}
      [] OTHER ->
            IF fn = "checkVSCode" THEN {"VS Code in PATH", "VS Code installed"}
            ELSE {"Extension: " \o requiredExtensions[k].name : k \in DOMAIN requiredExtensions}

\* C8: whatever command a function ran, when executeCommand gave it null the function
\* recorded no success for that command in passed, and the run did not crash.
C8_AbsentNeverSuccess ==
    /\ pc # "crashed"
    /\ \A i \in DOMAIN locals.execs :
         locals.execs[i].value.isNull =>
             \A item \in SuccessEntries(locals.fn, locals.execs[i].command) :
                 ~InList(results.passed, item)

\* the step in which checkExtensions runs
ExtensionsStep == pc = "checkExtensions" /\ pc' = "checkGit"

\* what that step prints
NewLines == SubSeq(output', Len(output) + 1, Len(output'))

\* the entries that step pushes on a list of the accumulator
Added(list) == SubSeq(results'[list], Len(results[list]) + 1, Len(results'[list]))

\* checkExtensions is given no editor path
AbsentPath == vscodePath.isNull

\* checkExtensions is given a path and the list command gives null or nothing
NoUsableList ==
    /\ ~vscodePath.isNull
    /\ \/ locals'.vars.installedExtensions.isNull
       \/ locals'.vars.installedExtensions.text = <<>>

\* the three lines of printHeader
IsHeader(lines, title) ==
    /\ lines[1] = [color |-> "none", text |-> "\n" \o Rule]
    /\ lines[2] = [color |-> "bright", text |-> title]
    /\ lines[3] = [color |-> "none", text |-> Rule \o "\n"]

\* C9 as stated: when the editor path is absent or the list command gives no usable
\* result, checkExtensions prints exactly one line after its header, runs no
\* per-extension check (and no command at all when the path is absent), and pushes
\* nothing on any list.
C9_SkipPrintsOneLine ==
    [][ExtensionsStep /\ (AbsentPath \/ NoUsableList) =>
          /\ results' = results
          /\ AbsentPath => calls' = calls
          /\ NoUsableList => Len(calls') = Len(calls) + 1
          /\ Len(NewLines) = 4
          /\ IsHeader(NewLines, "Checking VS Code Extensions")]_vars

\* C9 amended: in those two cases checkExtensions prints, after its header, one yellow
\* skip notice followed by plain hint lines, one when the path is absent and two when
\* the list is unusable; it runs no per-extension check (with no path no command at
\* all, else the list command alone) and pushes nothing on any list.
C9_SkipPrintsNoticeAndHints ==
    [][ExtensionsStep /\ (AbsentPath \/ NoUsableList) =>
          /\ results' = results
          /\ IsHeader(NewLines, "Checking VS Code Extensions")
          /\ AbsentPath =>
                /\ calls' = calls
                /\ Len(NewLines) = 5
                /\ NewLines[4] = [color |-> "yellow",
                                  text |-> "(skip) Skipping extensions check - VS Code not found"]
          /\ NoUsableList =>
                /\ calls' = Append(calls, "\"" \o vscodePath.path \o "\" --list-extensions")
                /\ Len(NewLines) = 6
                /\ NewLines[4] = [color |-> "yellow",
                                  text |-> "(skip) Could not retrieve extensions list"]
          /\ \A k \in 5..Len(NewLines) : NewLines[k].color = "none"]_vars

\* C9 witness: checkExtensions has run on a path whose list command gave an empty output
\* and the accumulator holds nothing about an extension
C9_Witness ==
    /\ locals.fn = "checkExtensions"
    /\ ~vscodePath.isNull
    /\ locals.execs[1].raw = Ok(<<>>)
    /\ Len(locals.execs) = 1
    /\ output[Len(output) - 2].text = "(skip) Could not retrieve extensions list"
    /\ \A k \in DOMAIN requiredExtensions :
         /\ ~InList(results.passed, "Extension: " \o requiredExtensions[k].name)
         /\ ~InList(results.failed, "Extension: " \o requiredExtensions[k].name)

\* c and d are the same character, or the two cases of one letter
SameLetter(c, d) ==
    \/ c = d
    \/ \E i \in DOMAIN LowerLetters : {c, d} = {LowerLetters[i], UpperLetters[i]}

\* a and b are equal up to the casing of their letters
EqualIgnoringCase(a, b) ==
    Len(a) = Len(b) /\ \A i \in DOMAIN a : SameLetter(a[i], b[i])

\* text has a line that is id in some casing; a line runs from the start of the text
\* or a line feed to the next line feed or the end of the text
Lists(text, id) ==
    \E from \in 1..Len(text) :
        LET to == from + Len(id) - 1
        IN  /\ from = 1 \/ text[from - 1] = "\n"
            /\ to <= Len(text)
            /\ to = Len(text) \/ text[to + 1] = "\n"
            /\ EqualIgnoringCase(SubSeq(text, from, to), id)

\* checkExtensions is given a path and the list command gives a list that is not empty
UsableList ==
    /\ ~vscodePath.isNull
    /\ ~locals'.vars.installedExtensions.isNull
    /\ locals'.vars.installedExtensions.text # <<>>

GitStep == pc = "checkGit" /\ pc' = "checkLocalRepo"

\* the commands a step runs
NewCalls == SubSeq(calls', Len(calls) + 1, Len(calls'))

\* the paths a step tests
NewFsChecks == SubSeq(fsChecks', Len(fsChecks) + 1, Len(fsChecks'))

\* C11: when `git --version` gives no result, checkGit runs no other command (the
\* user.name and user.email queries are not made), pushes the one failure
\* "Git not found", filed as critical, and pushes nothing else on any list.
C11_GitAbsentSkipsIdentity ==
    [][GitStep /\ ~Truthy(locals'.execs[1].value) =>
          /\ NewCalls = <<"git --version">>
          /\ Added("failed") = <<"Git not found">>
          /\ Added("critical") = <<"Git is NOT installed">>
          /\ Added("passed") = <<>>
          /\ Added("warnings") = <<>>
          /\ Added("important") = <<>>
          /\ Added("optional") = <<>>]_vars

\* C11 witness: checkGit has run one command, which gave null, and recorded Git as
\* not found and nothing about the identity
C11_Witness ==
    /\ locals.fn = "checkGit"
    /\ Len(locals.execs) = 1
    /\ locals.execs[1].command = "git --version"
    /\ locals.execs[1].value.isNull
    /\ InList(results.failed, "Git not found")
    /\ InList(results.critical, "Git is NOT installed")
    /\ ~InList(results.failed, "Git user.name not set")
    /\ ~InList(results.failed, "Git user.email not set")

\* text ends with suffix
EndsWith(text, suffix) ==
    /\ Len(text) >= Len(suffix)
    /\ SubSeq(text, Len(text) - Len(suffix) + 1, Len(text)) = suffix

\* the email ends with one of the two institutional domains
InstitutionalEmail(email) ==
    \/ EndsWith(email, <<"@", "o", "c", "a", "d", "u", ".", "c", "a">>)
    \/ EndsWith(email, <<"@", "o", "c", "a", "d", ".", "c", "a">>)

\* checkGit found Git and a user.email that is not empty
EmailPresent ==
    /\ Len(locals'.execs) = 3
    /\ ~locals'.vars.userEmail.isNull
    /\ locals'.vars.userEmail.text # <<>>

\* C12: when Git is installed and a global user.email is set, checkGit pushes the
\* success "OCADU email configured" and no email warning exactly when the email ends
\* with @ocadu.ca or @ocad.ca; for every other email it pushes exactly one warning,
\* "Non-OCADU email", and no failure about the email.
C12_InstitutionalSuffixIsSuccess ==
    [][GitStep /\ EmailPresent =>
          LET institutional == InstitutionalEmail(locals'.vars.userEmail.text)
          IN  /\ InList(Added("passed"), "Git user.email set")
              /\ ~InList(Added("failed"), "Git user.email not set")
              /\ institutional <=> InList(Added("passed"), "OCADU email configured")
              /\ institutional <=> Added("warnings") = <<>>
              /\ ~institutional => Added("warnings") = <<"Non-OCADU email">>]_vars

\* the step in which checkLocalRepo runs
RepoStep == pc = "checkLocalRepo" /\ pc' = "printManualChecklist"

\* the current directory holds no .git entry
NoGitDir == Len(locals'.exists) = 1 /\ ~locals'.exists[1].found

\* the lines of a result: a success, a failure or a warning
ResultLines(lines) ==
    SelectSeq(lines, LAMBDA l : l.color \in {"green", "red", "yellow"})

\* C13: when the current directory holds no .git entry, checkLocalRepo tests that one
\* path, runs no command, reports the one warning 'Current directory is NOT a Git
\* repository', pushes 'Not in Git repository' on the warnings and pushes nothing on
\* the passed and the failed items nor on a severity bucket.
C13_NoRepositoryOneWarning ==
    [][RepoStep /\ NoGitDir =>
          /\ NewCalls = <<>>
          /\ NewFsChecks = <<GitDir(platform)>>
          /\ ResultLines(NewLines) =
               <<[color |-> "yellow", text |-> "[!] Current directory is NOT a Git repository"]>>
          /\ Added("warnings") = <<"Not in Git repository">>
          /\ Added("passed") = <<>>
          /\ Added("failed") = <<>>
          /\ Added("critical") = <<>>
          /\ Added("important") = <<>>
          /\ Added("optional") = <<>>]_vars

C13_Witness ==
    /\ locals.fn = "checkLocalRepo"
    /\ Len(locals.exists) = 1
    /\ ~locals.exists[1].found
    /\ locals.execs = <<>>
    /\ results.warnings # <<>>
    /\ results.warnings[Len(results.warnings)] = "Not in Git repository"

\* the number of lines of a text that are not empty: the places where a line starts
NonEmptyLines(text) ==
    Cardinality({i \in DOMAIN text :
                   text[i] # "\n" /\ (i = 1 \/ text[i - 1] = "\n")})

\* checkLocalRepo is in a repository and the status query gave an answer
StatusAnswered ==
    /\ Len(locals'.exists) = 1
    /\ locals'.exists[1].found
    /\ Len(locals'.execs) = 3
    /\ locals'.execs[3].command = "git status --porcelain"
    /\ locals'.execs[3].raw.ok

\* the warning lines about uncommitted changes
ChangeLines(lines) ==
    SelectSeq(lines, LAMBDA l : l.color = "yellow" /\ l.text \in
                {"[!] You have " \o ToString(n) \o " uncommitted change(s)" : n \in 0..(MaxChanges + 2)})

\* C14: in a repository, when the status query prints no line that is not empty,
\* checkLocalRepo pushes 'Clean working directory' on the passed items and no
\* 'Uncommitted changes' warning; when it prints N >= 1 such lines, it reports exactly
\* one warning 'You have N uncommitted change(s)', pushes 'Uncommitted changes' once
\* on the warnings and pushes no 'Clean working directory'.
C14_StatusCountsChanges ==
    [][RepoStep /\ StatusAnswered =>
          LET n == NonEmptyLines(locals'.execs[3].raw.stdout)
          IN  IF n = 0
              THEN /\ InList(Added("passed"), "Clean working directory")
                   /\ ~InList(Added("warnings"), "Uncommitted changes")
                   /\ ChangeLines(NewLines) = <<>>
              ELSE /\ ChangeLines(NewLines) =
                        <<[color |-> "yellow",
                           text |-> "[!] You have " \o ToString(n) \o " uncommitted change(s)"]>>
                   /\ SelectSeq(Added("warnings"), LAMBDA w : w = "Uncommitted changes")
                        = <<"Uncommitted changes">>
                   /\ ~InList(Added("passed"), "Clean working directory")
                   /\ Added("failed") = <<>>]_vars

\* one changed file out of MaxChanges possible
C14_Witness ==
    /\ locals.fn = "checkLocalRepo"
    /\ Len(locals.execs) = 3
    /\ locals.execs[3].raw = Ok(StatusLines(1))
    /\ InList(results.warnings, "Uncommitted changes")
    /\ \E k \in DOMAIN output : output[k].text = "[!] You have 1 uncommitted change(s)"

\* a blank answer
C14_WitnessClean ==
    /\ locals.fn = "checkLocalRepo"
    /\ Len(locals.execs) = 3
    /\ locals.execs[3].raw = Ok(<<"\n">>)
    /\ InList(results.passed, "Clean working directory")

\* a step in which one of the five check functions runs
ProbeStep ==
    /\ pc \in {"checkNode", "checkVSCode", "checkExtensions", "checkGit", "checkLocalRepo"}
    /\ pc' # pc

\* the lines printResult prints for a criticality
CriticalityLines ==
    {[color |-> criticalityColors[c], text |-> "  " \o critSymbols[c] \o " Criticality: " \o c] :
       c \in {"CRITICAL", "IMPORTANT", "OPTIONAL"}}

\* the line that opens the fix instructions, and the line of the link
FixHeading == [color |-> "cyan", text |-> "  (bulb) How to fix:"]
GuideLine == [color |-> "blue", text |-> "  (book) Guide: " \o GuideLink]

\* line k reports a failure
IsFailureLine(lines, k) == lines[k].color = "red" /\ lines[k] \notin CriticalityLines

\* the last line of the report that starts at line k: the empty line that closes it
ReportEnd(lines, k) ==
    CHOOSE e \in k..Len(lines) :
        /\ e = Len(lines) \/ lines[e].text = ""
        /\ \A j \in k..(e - 1) : lines[j].text # ""

\* the report that starts at line k holds this line
ReportHolds(lines, k, wanted) ==
    \E j \in k..ReportEnd(lines, k) : lines[j] \in wanted

\* C15: every failure a check function reports is printed with its criticality, with
\* the heading of its fix instructions, and with the link of the guide.
C15_FailuresCarryCriticalityFixLink ==
    [][ProbeStep =>
          \A k \in DOMAIN NewLines :
              IsFailureLine(NewLines, k) =>
                  /\ ReportHolds(NewLines, k, CriticalityLines)
                  /\ ReportHolds(NewLines, k, {FixHeading})
                  /\ ReportHolds(NewLines, k, {GuideLine})]_vars

\* the first lines of the six warnings that are given fix instructions
WarningHeadlines ==
    {[color |-> "yellow", text |-> symbols.warning \o " " \o message] :
       message \in {"VS Code is NOT in PATH", "npm is NOT installed",
                    "Not using OCADU email address", "No remote repository configured",
                    "Current directory is NOT a Git repository"}
                   \cup {"You have " \o ToString(n) \o " uncommitted change(s)" :
                           n \in 1..(MaxChanges + 2)}}

\* C16: every warning a check function reports with fix instructions is printed with
\* the heading of those instructions, as a failure is.
C16_WarningsShowTheirFix ==
    [][ProbeStep =>
          \A k \in DOMAIN NewLines :
              NewLines[k] \in WarningHeadlines => ReportHolds(NewLines, k, {FixHeading})]_vars

SeverityBuckets == {"critical", "important", "optional"}

\* the places of the severity buckets where a step files this message
FiledAt(message) ==
    {<<b, i>> \in SeverityBuckets \X (1..Len(NewLines)) :
        i \in DOMAIN Added(b) /\ Added(b)[i] = message}

\* the failures and the warnings a step reports: the lines and what marks them
FailureLineSet == {k \in DOMAIN NewLines : IsFailureLine(NewLines, k)}
WarningLineSet == {k \in DOMAIN NewLines : NewLines[k] \in WarningHeadlines}

\* the line that reports this message with this mark
Reports(k, mark, message) == NewLines[k].text = mark \o " " \o message

\* C17: of what a check function records, every failure and every warning given a
\* criticality is filed in exactly one of the buckets critical, important, optional
\* and pushed on the failed items or on the warnings, and nothing else is filed in a
\* bucket.
C17_EveryOutcomeInOneBucket ==
    [][ProbeStep =>
          /\ Cardinality(FailureLineSet) = Len(Added("failed"))
          /\ Cardinality(WarningLineSet) = Len(Added("warnings"))
          /\ \A k \in FailureLineSet :
                \E b \in SeverityBuckets : \E i \in DOMAIN Added(b) :
                   /\ Reports(k, symbols.failure, Added(b)[i])
                   /\ Cardinality(FiledAt(Added(b)[i])) = 1
          /\ \A k \in WarningLineSet :
                \E b \in SeverityBuckets : \E i \in DOMAIN Added(b) :
                   /\ Reports(k, symbols.warning, Added(b)[i])
                   /\ Cardinality(FiledAt(Added(b)[i])) = 1
          /\ Len(Added("critical")) + Len(Added("important")) + Len(Added("optional"))
               = Cardinality(FailureLineSet) + Cardinality(WarningLineSet)]_vars

\* the six lists of the accumulator
ResultLists == {"passed", "failed", "warnings", "critical", "important", "optional"}

\* the successes a step reports
SuccessLineSet ==
    {k \in DOMAIN NewLines : NewLines[k].color = "green" /\ NewLines[k] \notin CriticalityLines}

\* a step of printManualChecklist or of printSummary
ReadingStep == pc \in {"printManualChecklist", "printSummary"} /\ pc' # pc

\* C18: every step of a run leaves the entries of the six lists of the accumulator in
\* place and only adds entries at their ends; a check function adds one entry to the
\* passed items, the failed items or the warnings for each success, failure or warning
\* it reports; printManualChecklist and printSummary leave the six lists as they are.
C18_ListsAppendOnly ==
    [][/\ DOMAIN results' = ResultLists
       /\ \A list \in ResultLists : IsPrefix(results[list], results'[list])
       /\ ProbeStep =>
            /\ Len(Added("passed")) = Cardinality(SuccessLineSet)
            /\ Len(Added("failed")) = Cardinality(FailureLineSet)
            /\ Len(Added("warnings")) = Cardinality(WarningLineSet)
       /\ ReadingStep => results' = results]_vars

\* printSummary has run on lists that hold entries of every kind
C18_Witness ==
    /\ pc = "done"
    /\ Len(results.passed) >= 2
    /\ Len(results.failed) >= 2
    /\ Len(results.warnings) >= 2
    /\ results.critical # <<>>
    /\ results.important # <<>>

\* the step in which checkVSCode runs
VSCodeStep == pc = "checkVSCode" /\ pc' = "checkExtensions"

\* the locate-in-path command answered
InPath == whichCode.ok

\* the existsSync tests of the step, as the paths tested and the paths found
TestedPaths == [i \in DOMAIN locals'.exists |-> locals'.exists[i].path]
FoundAt == {i \in DOMAIN locals'.exists : locals'.exists[i].found}

\* C19: in checkVSCode, findVSCodePath first runs the platform's locate command; if it
\* answers, no path is tested and the bare command name is the result; otherwise the
\* candidate paths are tested in their order up to the first that exists, which is the
\* result; if none exists the result is null, and checkVSCode then runs no other
\* command, pushes 'VS Code not found' on the failed items, files 'VS Code is NOT
\* installed' as critical, pushes no success, and returns null, with which
\* checkExtensions is called and runs no command.
C19_FindsFirstExistingPath ==
    [][/\ VSCodeStep =>
            /\ locals'.execs[1].command = LocateCommand(platform)
            /\ IF InPath
               THEN /\ TestedPaths = <<>>
                    /\ locals'.vars.vscodePath =
                         PathValue(IF platform = "win32" THEN "code.cmd" ELSE "code")
               ELSE /\ IsPrefix(TestedPaths, possiblePaths(platform, env))
                    /\ FoundAt \subseteq {Len(TestedPaths)}
                    /\ IF FoundAt = {}
                       THEN /\ TestedPaths = possiblePaths(platform, env)
                            /\ locals'.vars.vscodePath = NullPath
                            /\ NewCalls = <<LocateCommand(platform)>>
                            /\ Added("failed") = <<"VS Code not found">>
                            /\ Added("critical") = <<"VS Code is NOT installed">>
                            /\ Added("passed") = <<>>
                            /\ Added("important") = <<>>
                            /\ Added("optional") = <<>>
                            /\ vscodePath' = NullPath
                       ELSE locals'.vars.vscodePath =
                              PathValue(TestedPaths[Len(TestedPaths)])
       /\ ExtensionsStep /\ vscodePath = NullPath => NewCalls = <<>>]_vars

\* the second candidate is the first that exists
C19_Witness ==
    /\ locals.fn = "checkVSCode"
    /\ ~whichCode.ok
    /\ Len(locals.exists) = 2
    /\ ~locals.exists[1].found
    /\ locals.exists[2].found
    /\ locals.vars.vscodePath = PathValue(possiblePaths(platform, env)[2])

\* no candidate exists, and checkExtensions has been called with null
C19_WitnessNone ==
    /\ locals.fn = "checkExtensions"
    /\ ~whichCode.ok
    /\ vscodePath = NullPath
    /\ Len(fsChecks) = Len(possiblePaths(platform, env))
    /\ InList(results.critical, "VS Code is NOT installed")

\* the candidate paths of the platform
CandidatePaths == {possiblePaths(platform, env)[i] : i \in DOMAIN possiblePaths(platform, env)}

\* checkVSCode found the editor at a candidate path, not in PATH, and it told its version
FoundOutsidePath ==
    /\ ~InPath
    /\ FoundAt # {}
    /\ Len(locals'.execs) >= 2
    /\ locals'.execs[2].raw.ok
    /\ locals'.execs[2].raw.stdout # <<>>

ExtensionBucket ==
    [name \in {"GitLens", "p5js Snippets", "P5 Project Creator", "Live Server", "GitHub Actions"} |->
        IF name \in {"P5 Project Creator", "Live Server"} THEN "critical"
        ELSE IF name \in {"GitLens", "p5js Snippets"} THEN "important"
        ELSE "optional"]

\* how many times a list holds an item
Count(list, item) == Cardinality({i \in DOMAIN list : list[i] = item})

GitFound == Len(locals'.execs) = 3 /\ Truthy(locals'.execs[1].value)

\* a query of checkGit gave null or nothing
Unset(value) == value.isNull \/ value.text = <<>>

\* C22: when Git is installed, checkGit runs both the user.name and the user.email
\* query; a user.name that is not set is pushed once on the failed items and filed once
\* as critical, and so is a user.email that is not set; whether the name is set or not,
\* an email that is set is pushed on the passed items and gets exactly one of the
\* success 'OCADU email configured' and the warning 'Non-OCADU email'.
C22_NameAndEmailIndependent ==
    [][GitStep /\ GitFound =>
          LET noName == Unset(locals'.execs[2].value)
              noEmail == Unset(locals'.execs[3].value)
              one(missing) == IF missing THEN 1 ELSE 0
          IN  /\ NewCalls = <<"git --version", "git config --global user.name",
                              "git config --global user.email">>
              /\ Count(Added("failed"), "Git user.name not set") = one(noName)
              /\ Count(Added("critical"), "Git user.name is NOT configured") = one(noName)
              /\ Count(Added("passed"), "Git user.name set") = one(~noName)
              /\ Count(Added("failed"), "Git user.email not set") = one(noEmail)
              /\ Count(Added("critical"), "Git user.email is NOT configured") = one(noEmail)
              /\ Count(Added("passed"), "Git user.email set") = one(~noEmail)
              /\ Count(Added("passed"), "OCADU email configured")
                   + Count(Added("warnings"), "Non-OCADU email") = one(~noEmail)
              /\ Len(Added("failed")) = one(noName) + one(noEmail)
              /\ Len(Added("critical")) = one(noName) + one(noEmail)
              /\ Added("important") = <<>>
              /\ Added("optional") = <<>>]_vars

\* the name is not set and the email, set, is found institutional
C22_Witness ==
    /\ locals.fn = "checkGit"
    /\ Len(locals.execs) = 3
    /\ locals.execs[2].value.isNull
    /\ Truthy(locals.execs[3].value)
    /\ InList(results.failed, "Git user.name not set")
    /\ InList(results.critical, "Git user.name is NOT configured")
    /\ InList(results.passed, "Git user.email set")
    /\ InList(results.passed, "OCADU email configured")
    /\ ~InList(results.failed, "Git user.email not set")

\* text starts with prefix
StartsWith(text, prefix) ==
    /\ Len(text) >= Len(prefix)
    /\ SubSeq(text, 1, Len(prefix)) = prefix

\* the host of a remote URL is GitHub's: the URL starts with a scheme or a user, the
\* domain, and the mark that ends the host
HostedOnGitHub(url) ==
    \E scheme \in {<<"h","t","t","p","s",":","/","/">>, <<"h","t","t","p",":","/","/">>, <<"s","s","h",":","/","/","g","i","t","@">>, <<"g","i","t","@">>} :
        \E stop \in {<<"/">>, <<":">>} :
            StartsWith(url, scheme \o <<"g","i","t","h","u","b",".","c","o","m">> \o stop)

\* checkLocalRepo is in a repository: it made its three queries
InRepository ==
    /\ Len(locals'.exists) = 1
    /\ locals'.exists[1].found
    /\ Len(locals'.execs) = 3

\* the successes a step pushes that name a branch
BranchEntries ==
    SelectSeq(Added("passed"),
              LAMBDA item : item \notin {"Git repository found", "Remote configured",
                                         "GitHub repository", "Clean working directory"})

\* C23: in a repository checkLocalRepo runs the remote, the branch and the status query
\* whatever the first two answer; without a remote it pushes the one warning 'No
\* remote configured' and no 'Remote configured'; with a remote it pushes 'Remote
\* configured' once and no such warning, and 'GitHub repository' once exactly when the
\* host of the remote is github.com; it pushes one success naming the branch exactly
\* when the branch query gives a name.
C23_RemoteAndBranchReported ==
    [][RepoStep /\ InRepository =>
          LET remote == locals'.execs[1].value
              branch == locals'.execs[2].value
              one(yes) == IF yes THEN 1 ELSE 0
          IN  /\ NewCalls = <<"git remote get-url origin", "git branch --show-current",
                              "git status --porcelain">>
              /\ Count(Added("warnings"), "No remote configured") = one(Unset(remote))
              /\ Count(Added("passed"), "Remote configured") = one(~Unset(remote))
              /\ Count(Added("passed"), "GitHub repository")
                   = one(~Unset(remote) /\ HostedOnGitHub(remote.text))
              /\ BranchEntries = IF Unset(branch) THEN <<>>
                                 ELSE <<"Branch: " \o Str(branch.text)>>
              /\ Added("failed") = <<>>]_vars

NodeStep == pc = "checkNode" /\ pc' = "checkVSCode"
SummaryStep == pc = "printSummary" /\ pc' = "done"

\* the entries of the passed, failed and warnings lists together
Total == Len(results.passed) + Len(results.failed) + Len(results.warnings)

\* C25: checkNode adds exactly two entries to the passed, failed and warnings lists:
\* 'Node.js installed' on passed or 'Node.js not found' on failed, and 'npm installed'
\* on passed or 'npm not found' on warnings; so whenever main has reached printSummary
\* the three lists hold at least two entries together, and the total printSummary
\* divides by is not zero.
C25_SummaryTotalAtLeastTwo ==
    /\ [](pc \in {"printSummary", "done"} => Total >= 2)
    /\ [][NodeStep =>
            /\ Count(Added("passed"), "Node.js installed")
                 + Count(Added("failed"), "Node.js not found") = 1
            /\ Count(Added("passed"), "npm installed")
                 + Count(Added("warnings"), "npm not found") = 1
            /\ Len(Added("passed")) + Len(Added("failed")) + Len(Added("warnings")) = 2]_vars
    /\ [][SummaryStep => Total >= 2 /\ InList(trace, "checkNode")]_vars

\* printSummary has run after a checkNode that found neither node nor npm
C25_Witness ==
    /\ pc = "done"
    /\ results.failed # <<>>
    /\ results.failed[1] = "Node.js not found"
    /\ results.warnings # <<>>
    /\ results.warnings[1] = "npm not found"
    /\ Total >= 2

\* checkExtensions is given a path and its list command ends with status 0
ListCommandSucceeded ==
    /\ ~vscodePath.isNull
    /\ Len(locals'.execs) >= 1
    /\ locals'.execs[1].raw.ok

\* C26: when checkExtensions is given a path and the list command succeeds, the step
\* pushes exactly one entry for each of the five required extensions, on the passed or
\* on the failed items, five in all; when the command prints nothing, the five are
\* pushed on the failed items.
C26_FiveEntriesWhenListed ==
    [][ExtensionsStep /\ ListCommandSucceeded =>
          /\ \A k \in DOMAIN requiredExtensions :
                Count(Added("passed"), "Extension: " \o requiredExtensions[k].name)
                  + Count(Added("failed"), "Extension: " \o requiredExtensions[k].name) = 1
          /\ Len(Added("passed")) + Len(Added("failed")) = 5
          /\ Trim(locals'.execs[1].raw.stdout) = <<>> => Len(Added("failed")) = 5]_vars

====
